---- MODULE Spec2Model ----
(***************************************************************************)
(* The websocket chat relay of main.py: websocket_endpoint (one handler    *)
(* task per connection), the connection manager it drives and the chat     *)
(* history read get_chat.                                                  *)
(*                                                                         *)
(* The handler tasks run on one asyncio event loop: a task runs without    *)
(* interruption from one await to the next, so every action below is the   *)
(* code between two suspension points of a handler.                        *)
(*                                                                         *)
(* socket_manager, db, deps and utils are imported by main.py; their       *)
(* operations (manager.connect, manager.disconnect,                        *)
(* manager.send_personal_message, decode_token, get_messages_from_chat)    *)
(* are modelled from the written specification of the relay.               *)
(***************************************************************************)
EXTENDS Integers, Sequences, FiniteSets

(* ------------------------------ bounds -------------------------------- *)

\* Number of connection handles that may ever be opened.
MaxConns == 2

\* Total number of frames the clients send, over all connections.
MaxFrames == 4

\* Connection handles. Each is a distinct WebSocket object, opened at most
\* once; 0 stands for "no handle" (None).
Conns == 1..MaxConns

NoConn == 0

\* Registered identities.
Users == {"alice", "bob", "carol"}

\* Tokens a client may present: the valid token of each identity, and one
\* that does not decode (invalid or expired).
Tokens == {"tok_alice", "tok_bob", "tok_bad"}

Texts == {"hi"}

(* ------------------------------ frames -------------------------------- *)

\* The JSON objects a client may send: data = await websocket.receive_json()
TokenFrames == {[token |-> t] : t \in Tokens}

SendFrames ==
    {[receiver |-> r, sender |-> s, message |-> m] : r \in Users, s \in Users, m \in Texts}

\* Send frames that lack one of the keys the handler reads.
MalformedFrames ==
    {[sender |-> "alice", message |-> "hi"], [receiver |-> "bob", sender |-> "alice"]}

Frames == TokenFrames \cup SendFrames \cup MalformedFrames

NoData == <<>>

\* Texts the handler sends back on its own connection.
AuthOk == "successful authorization"

NotAuthorized == "websocket not authorized"

AuthFailed == "authentication failed"

DeliveryFailed == "delivery failed"

VARIABLES
    pc,                      \* the position of each connection's handler task
    exc,                     \* the exception that ended the handler task, if any
    data,                    \* the handler's local `data`: the frame being processed
    active_connections,      \* manager: the registered handles
    authorized_connections,  \* manager.authorized_connections: list of {username, websocket}
    outbox,                  \* the texts sent on each connection, in order
    chat_rooms,              \* the chat store: list of {members, messages}
    nframes,                 \* frames received so far on each connection
    presented,               \* history: identities whose token each handle decoded
    routed                   \* history: the calls of manager.send_personal_message

vars ==
    <<pc, exc, data, active_connections, authorized_connections, outbox,
      chat_rooms, nframes, presented, routed>>

\* Frames received so far, over all connections.
RECURSIVE SumUpTo(_, _)
SumUpTo(f, n) == IF n = 0 THEN 0 ELSE f[n] + SumUpTo(f, n - 1)

TotalFrames == SumUpTo(nframes, MaxConns)

\* A handle is open from manager.connect until its handler task ends.
IsOpen(c) == pc[c] \notin {"idle", "done"}

(* --------------------------- token verifier --------------------------- *)

\* deps.decode_token: the identity a token encodes; it fails (raises) on an
\* invalid or expired token.
TokenValid(t) == t \in {"tok_alice", "tok_bob"}

decode_token(t) == IF t = "tok_alice" THEN "alice" ELSE "bob"

(* ------------------------------ registry ------------------------------ *)

\* 'token' in data.keys()
HasToken(d) == "token" \in DOMAIN d

\* Authorize with the list reassigned instead of appended to: the entries
\* of the other connections are lost.
MutAuthorizeReplace(reg, user, ws) ==
    <<[username |-> user, websocket |-> ws]>>

\* manager.authorized_connections.append({'username': user, 'websocket': websocket})
Authorize(reg, user, ws) ==
    Append(reg, [username |-> user, websocket |-> ws])

\* IsAuthorized with the check dropped: every connection counts as authorized.
MutIsAuthorizedAlways(reg, ws) == TRUE

\* any(d['websocket'] == websocket for d in manager.authorized_connections)
IsAuthorized(reg, ws) ==
    \E i \in DOMAIN reg : reg[i].websocket = ws

\* data['receiver'], data['sender'], data['message'] all exist (else KeyError)
HasSendFields(d) == {"receiver", "sender", "message"} \subseteq DOMAIN d

\* manager.connect: accept the stream and register the handle.
ManagerConnect(act, ws) == act \cup {ws}

\* manager.disconnect: delete all registry state of the handle.
ManagerDisconnectActive(act, ws) == act \ {ws}

ManagerDisconnectAuthorized(reg, ws) ==
    SelectSeq(reg, LAMBDA e : e.websocket # ws)

\* find_live_connection: the registry entries authorized as `identity`; the
\* router takes one of them (which one is not specified).
EntriesFor(reg, identity) ==
    {i \in DOMAIN reg : reg[i].username = identity}

(* ----------------------------- chat store ----------------------------- *)

SeqToSet(s) == {s[i] : i \in DOMAIN s}

\* FindOne matching the members array as given, in order, instead of by
\* containment.
MutFindOneOrdered(rooms, user, user2) ==
    LET hits == {i \in DOMAIN rooms : rooms[i].members = <<user, user2>>}
    IN  IF hits = {} THEN 0 ELSE CHOOSE i \in hits : \A j \in hits : i <= j

\* chat_rooms.find_one({'members': {'$all': [user, user2]}}): the first room
\* whose members array holds both names; 0 when there is none.
FindOne(rooms, user, user2) ==
    LET hits == {i \in DOMAIN rooms : {user, user2} \subseteq SeqToSet(rooms[i].members)}
    IN  IF hits = {} THEN 0 ELSE CHOOSE i \in hits : \A j \in hits : i <= j

\* utils.get_messages_from_chat: the room's messages, in order, as
\* {from, to, message}.
get_messages_from_chat(room) ==
    [i \in DOMAIN room.messages |->
        [from |-> room.messages[i].from, to |-> room.messages[i].to,
         message |-> room.messages[i].message]]

\* GET /api/get_chat/{user2} called by `user`
get_chat(rooms, user2, user) ==
    LET cursor == FindOne(rooms, user, user2)
    IN  IF cursor = 0 THEN <<>> ELSE get_messages_from_chat(rooms[cursor])

\* The router's store step: find or create the room of {sender, receiver}
\* and append the message.
StoreMessage(rooms, sender, receiver, text) ==
    LET msg == [from |-> sender, to |-> receiver, message |-> text]
        at  == FindOne(rooms, sender, receiver)
    IN  IF at = 0
        THEN Append(rooms, [members |-> <<sender, receiver>>, messages |-> <<msg>>])
        ELSE [rooms EXCEPT ![at].messages = Append(@, msg)]

(* ------------------------------- Init --------------------------------- *)

Init ==
    /\ pc = [c \in Conns |-> "idle"]
    /\ exc = [c \in Conns |-> "none"]
    /\ data = [c \in Conns |-> NoData]
    /\ active_connections = {}
    /\ authorized_connections = <<>>
    /\ outbox = [c \in Conns |-> <<>>]
    /\ chat_rooms = <<>>
    /\ nframes = [c \in Conns |-> 0]
    /\ presented = [c \in Conns |-> {}]
    /\ routed = {}

(* ------------------------------ handler ------------------------------- *)

\* await manager.connect(websocket). Handles are numbered in the order in
\* which they are opened.
Connect(c) ==
    /\ pc[c] = "idle"
    /\ \A k \in Conns : k < c => pc[k] # "idle"
    /\ active_connections' = ManagerConnect(active_connections, c)
    /\ pc' = [pc EXCEPT ![c] = "recv"]
    /\ UNCHANGED <<exc, data, authorized_connections, outbox, chat_rooms,
                   nframes, presented, routed>>

\* data = await websocket.receive_json() returns a frame, and the handler
\* runs to its next await.
Receive(c, d) ==
    /\ pc[c] = "recv"
    /\ TotalFrames < MaxFrames
    /\ nframes' = [nframes EXCEPT ![c] = @ + 1]
    /\ data' = [data EXCEPT ![c] = d]
    /\ IF HasToken(d)
       THEN \* user = await decode_token(data['token'])
            /\ pc' = [pc EXCEPT ![c] = "decode"]
            /\ UNCHANGED <<exc, outbox>>
       ELSE IF ~IsAuthorized(authorized_connections, c)
       THEN \* await websocket.send_text('websocket not authorized')
            /\ outbox' = [outbox EXCEPT ![c] = Append(@, NotAuthorized)]
            /\ UNCHANGED <<pc, exc>>
       ELSE IF ~HasSendFields(d)
       THEN \* KeyError: not caught by `except WebSocketDisconnect`
            /\ pc' = [pc EXCEPT ![c] = "done"]
            /\ exc' = [exc EXCEPT ![c] = "KeyError"]
            /\ UNCHANGED outbox
       ELSE \* await manager.send_personal_message(receiver, sender, message)
            /\ pc' = [pc EXCEPT ![c] = "route"]
            /\ UNCHANGED <<exc, outbox>>
    /\ UNCHANGED <<active_connections, authorized_connections, chat_rooms,
                   presented, routed>>

\* decode_token returns the identity; the entry is appended.
DecodeOk(c) ==
    /\ pc[c] = "decode"
    /\ TokenValid(data[c].token)
    /\ authorized_connections' =
           Authorize(authorized_connections, decode_token(data[c].token), c)
    /\ presented' = [presented EXCEPT ![c] = @ \cup {decode_token(data[c].token)}]
    /\ pc' = [pc EXCEPT ![c] = "reply"]
    /\ UNCHANGED <<exc, data, active_connections, outbox, chat_rooms, nframes, routed>>

\* decode_token raises: the exception is not a WebSocketDisconnect, so it
\* leaves the handler without manager.disconnect.
DecodeFail(c) ==
    /\ pc[c] = "decode"
    /\ ~TokenValid(data[c].token)
    /\ pc' = [pc EXCEPT ![c] = "done"]
    /\ exc' = [exc EXCEPT ![c] = "InvalidToken"]
    /\ UNCHANGED <<data, active_connections, authorized_connections, outbox,
                   chat_rooms, nframes, presented, routed>>

\* await websocket.send_text("successful authorization")
SendAuthReply(c) ==
    /\ pc[c] = "reply"
    /\ outbox' = [outbox EXCEPT ![c] = Append(@, AuthOk)]
    /\ pc' = [pc EXCEPT ![c] = "recv"]
    /\ UNCHANGED <<exc, data, active_connections, authorized_connections,
                   chat_rooms, nframes, presented, routed>>

\* send_personal_message, first part: look up a connection of the receiver
\* and push the text to it. A push to a handle that is no longer open fails
\* safely. The history record keeps, as `live`, the open connections that
\* have authenticated as the receiver at this moment.
RouteDeliver(c) ==
    /\ pc[c] = "route"
    /\ LET d    == data[c]
           hits == EntriesFor(authorized_connections, d.receiver)
           live == {h \in Conns : IsOpen(h) /\ d.receiver \in presented[h]}
       IN  \E to \in IF hits = {} THEN {NoConn}
                     ELSE {authorized_connections[i].websocket : i \in hits} :
             /\ outbox' = IF to # NoConn /\ IsOpen(to)
                          THEN [outbox EXCEPT ![to] = Append(@, d.message)]
                          ELSE outbox
             /\ routed' = routed \cup
                    {[conn |-> c, frame |-> nframes[c], sender |-> d.sender,
                      receiver |-> d.receiver, message |-> d.message,
                      to |-> to, live |-> live, status |-> "pending"]}
    /\ pc' = [pc EXCEPT ![c] = "persist"]
    /\ UNCHANGED <<exc, data, active_connections, authorized_connections,
                   chat_rooms, nframes, presented>>

Pending(c) == CHOOSE r \in routed : r.conn = c /\ r.status = "pending"

\* send_personal_message, second part: the message is stored and the call
\* returns.
RoutePersist(c) ==
    /\ pc[c] = "persist"
    /\ chat_rooms' = StoreMessage(chat_rooms, data[c].sender, data[c].receiver,
                                  data[c].message)
    /\ routed' = (routed \ {Pending(c)}) \cup {[Pending(c) EXCEPT !.status = "returned"]}
    /\ pc' = [pc EXCEPT ![c] = "recv"]
    /\ UNCHANGED <<exc, data, active_connections, authorized_connections,
                   outbox, nframes, presented>>

\* send_personal_message raises (the chat store is unavailable): the
\* exception is not a WebSocketDisconnect and ends the handler.
RouteStoreFail(c) ==
    /\ pc[c] = "persist"
    /\ routed' = (routed \ {Pending(c)}) \cup {[Pending(c) EXCEPT !.status = "failed"]}
    /\ pc' = [pc EXCEPT ![c] = "done"]
    /\ exc' = [exc EXCEPT ![c] = "StoreFailure"]
    /\ UNCHANGED <<data, active_connections, authorized_connections, outbox,
                   chat_rooms, nframes, presented>>

\* receive_json raises WebSocketDisconnect (the client closed the stream):
\* except WebSocketDisconnect: manager.disconnect(websocket)
Disconnect(c) ==
    /\ pc[c] = "recv"
    /\ active_connections' = ManagerDisconnectActive(active_connections, c)
    /\ authorized_connections' = ManagerDisconnectAuthorized(authorized_connections, c)
    /\ pc' = [pc EXCEPT ![c] = "done"]
    /\ exc' = [exc EXCEPT ![c] = "WebSocketDisconnect"]
    /\ UNCHANGED <<data, outbox, chat_rooms, nframes, presented, routed>>

Next ==
    \E c \in Conns :
        \/ Connect(c)
        \/ \E d \in Frames : Receive(c, d)
        \/ DecodeOk(c)
        \/ DecodeFail(c)
        \/ SendAuthReply(c)
        \/ RouteDeliver(c)
        \/ RoutePersist(c)
        \/ RouteStoreFail(c)
        \/ Disconnect(c)

Spec == Init /\ [][Next]_vars

(* ============================== claims ================================ *)

\* The stored form of a routed message.
StoredMsg(r) == [from |-> r.sender, to |-> r.receiver, message |-> r.message]

\* C1: a frame without a token is passed to the router only on a connection
\* that has earlier presented a token that decoded; on a connection with no
\* authorization entry it is answered with 'websocket not authorized' on
\* that connection, discarded, and the registry is left unchanged.
C1_UnauthorizedSendRejected ==
    [][\A c \in Conns :
          (nframes'[c] # nframes[c] /\ ~HasToken(data'[c])) =>
              /\ pc'[c] = "route" => presented[c] # {}
              /\ (\A i \in DOMAIN authorized_connections :
                      authorized_connections[i].websocket # c) =>
                    /\ outbox'[c] = Append(outbox[c], NotAuthorized)
                    /\ pc'[c] = "recv"
                    /\ authorized_connections' = authorized_connections
                    /\ active_connections' = active_connections
                    /\ routed' = routed
                    /\ chat_rooms' = chat_rooms]_vars

\* C1 witness: a connection that never authenticated has had a send frame
\* answered with the notice, and another connection's send was routed.
C1_Witness ==
    \E c \in Conns :
        /\ presented[c] = {}
        /\ data[c] \in SendFrames
        /\ outbox[c] # <<>>
        /\ outbox[c][Len(outbox[c])] = NotAuthorized
        /\ \E r \in routed : r.conn # c

\* C2: a send frame whose sender is not the identity its connection is
\* authorized as is never passed to the router.
C2_SenderMatchesIdentity ==
    \A r \in routed : r.sender \in presented[r.conn]

\* C3: a routed message reaches a live connection of the receiver when there
\* is one at the time of routing; when there is none, the history read made
\* after the routing call returns holds the message.
C3_DeliveredOrStored ==
    \A r \in routed :
        /\ r.live # {} =>
              /\ r.to \in r.live
              /\ r.message \in SeqToSet(outbox[r.to])
        /\ (r.live = {} /\ r.status = "returned") =>
              StoredMsg(r) \in SeqToSet(get_chat(chat_rooms, r.receiver, r.sender))

\* C4: when a handler task has ended, on whatever exit path, the registry
\* holds nothing for its handle.
C4_CleanupOnEveryExit ==
    \A c \in Conns :
        pc[c] = "done" =>
            /\ c \notin active_connections
            /\ ~\E i \in DOMAIN authorized_connections :
                    authorized_connections[i].websocket = c

\* C5: a token that does not decode leaves the registry unchanged, is
\* answered with an authentication-failure notice, and the handler goes on
\* reading frames.
C5_InvalidTokenRecoverable ==
    [][\A c \in Conns :
          (pc[c] = "decode" /\ ~TokenValid(data[c].token) /\ pc'[c] # "decode") =>
              /\ pc'[c] = "recv"
              /\ outbox'[c] = Append(outbox[c], AuthFailed)
              /\ authorized_connections' = authorized_connections
              /\ active_connections' = active_connections]_vars

\* C6: the registry holds at most one authorization entry per handle, and
\* it carries the identity of the most recent valid token.
C6_OneEntryPerHandle ==
    \A c \in Conns :
        Cardinality({i \in DOMAIN authorized_connections :
                        authorized_connections[i].websocket = c}) <= 1

\* C7: once a connection authorized as I has disconnected, every registry
\* entry a lookup for I can return is a still-open connection.
C7_NoLookupAfterDisconnect ==
    \A c \in Conns :
        exc[c] = "WebSocketDisconnect" =>
            \A I \in presented[c] :
                \A i \in EntriesFor(authorized_connections, I) :
                    IsOpen(authorized_connections[i].websocket)

\* The scenario of C8: every handler is running or waiting (none has ended),
\* each connection has authenticated as at most one identity, and no two as
\* the same one.
PairScenario ==
    /\ \A c \in Conns : pc[c] # "done" /\ Cardinality(presented[c]) <= 1
    /\ \A c1, c2 \in Conns : c1 # c2 => presented[c1] \cap presented[c2] = {}

\* C8: a message is pushed only to a connection that authenticated as its
\* receiver; and with connections authenticated as different identities, a
\* message sent once its receiver has authenticated is pushed to the
\* receiver's connection, under every interleaving of the handlers.
C8_DeliveredToRightPeer ==
    \A r \in routed :
        /\ r.to # NoConn => r.receiver \in presented[r.to]
        /\ (PairScenario /\ r.live # {}) =>
              /\ r.live = {r.to}
              /\ r.message \in SeqToSet(outbox[r.to])

\* C8 witness: two connections authenticated as different identities have
\* each sent to the other, and each got the other's message.
C8_Witness ==
    /\ PairScenario
    /\ \E r1, r2 \in routed :
          /\ r1.conn # r2.conn
          /\ r1.to = r2.conn
          /\ r2.to = r1.conn
          /\ r1.status = "returned"
          /\ r2.status = "returned"
          /\ r1.receiver # r2.receiver

\* C9: a failure inside the router is reported to the sender and does not
\* end the sender's handler.
C9_RouterFailureReported ==
    \A r \in routed :
        r.status = "failed" =>
            /\ exc[r.conn] \in {"none", "WebSocketDisconnect"}
            /\ DeliveryFailed \in SeqToSet(outbox[r.conn])

\* C10: the room lookup of the history read does not depend on the order of
\* the two names, and the room it finds has exactly those two members.
C10_UnorderedPairLookup ==
    \A A, B \in Users :
        A # B =>
            /\ FindOne(chat_rooms, A, B) = FindOne(chat_rooms, B, A)
            /\ get_chat(chat_rooms, B, A) = get_chat(chat_rooms, A, B)
            /\ FindOne(chat_rooms, A, B) # 0 =>
                  SeqToSet(chat_rooms[FindOne(chat_rooms, A, B)].members) = {A, B}

\* C10 witness: the store holds a room created as (bob, alice) and another
\* room, and the history read of alice with bob is not empty.
C10_Witness ==
    /\ Len(chat_rooms) >= 2
    /\ \E i \in DOMAIN chat_rooms : chat_rooms[i].members = <<"bob", "alice">>
    /\ get_chat(chat_rooms, "bob", "alice") # <<>>

====
